---- MODULE Spec2Model ----
(***************************************************************************)
(* Model of main.py of interactive-capital-city-agent: the capital lookup  *)
(* tool, the substring country matcher, the interactive chat loop, the     *)
(* demo sequence, the module-level API key check and main().               *)
(*                                                                         *)
(* A Python str is modelled as a sequence of one-character strings, so     *)
(* that lower(), strip() and the `in` substring test are computed and not  *)
(* assumed.                                                                *)
(***************************************************************************)
EXTENDS Integers, Sequences, FiniteSets, TLC

(***************************************************************************)
(* Bounds of the model.                                                    *)
(***************************************************************************)
\* number of lines the chat loop reads in one session
MaxTurns == 2
\* number of vocabulary words joined into one typed line
MaxWords == 2
\* number of upper-cased positions in a case variant of a table key
MaxCaps == 2

(***************************************************************************)
(* Python str primitives.                                                  *)
(***************************************************************************)
UpperOf ==
    [a |-> "A", b |-> "B", c |-> "C", d |-> "D", e |-> "E", f |-> "F",
     g |-> "G", h |-> "H", i |-> "I", j |-> "J", k |-> "K", l |-> "L",
     m |-> "M", n |-> "N", o |-> "O", p |-> "P", q |-> "Q", r |-> "R",
     s |-> "S", t |-> "T", u |-> "U", v |-> "V", w |-> "W", x |-> "X",
     y |-> "Y", z |-> "Z"]

LowerOf ==
    [A |-> "a", B |-> "b", C |-> "c", D |-> "d", E |-> "e", F |-> "f",
     G |-> "g", H |-> "h", I |-> "i", J |-> "j", K |-> "k", L |-> "l",
     M |-> "m", N |-> "n", O |-> "o", P |-> "p", Q |-> "q", R |-> "r",
     S |-> "s", T |-> "t", U |-> "u", V |-> "v", W |-> "w", X |-> "x",
     Y |-> "y", Z |-> "z"]

Whitespace == {" ", "\t"}

\* str.lower(): upper-case letters are mapped, every other character is kept
lower(s) ==
    [i \in 1..Len(s) |-> IF s[i] \in DOMAIN LowerOf THEN LowerOf[s[i]] ELSE s[i]]

\* str.upper(), used to build inputs only
upper(s) ==
    [i \in 1..Len(s) |-> IF s[i] \in DOMAIN UpperOf THEN UpperOf[s[i]] ELSE s[i]]

RECURSIVE lstrip(_)
lstrip(s) ==
    IF s # <<>> /\ Head(s) \in Whitespace THEN lstrip(Tail(s)) ELSE s

RECURSIVE rstrip(_)
rstrip(s) ==
    IF s # <<>> /\ s[Len(s)] \in Whitespace
    THEN rstrip(SubSeq(s, 1, Len(s) - 1))
    ELSE s

\* str.strip(): leading and trailing whitespace removed
strip(s) == rstrip(lstrip(s))

\* Python `sub in s`: sub occurs as a contiguous run of s
Contains(sub, s) ==
    \E i \in 0..(Len(s) - Len(sub)) : SubSeq(s, i + 1, i + Len(sub)) = sub

\* dict.get(key, default): the value and the dict as it is after the call
DictGet(d, key, default) ==
    IF key \in DOMAIN d
    THEN [value |-> d[key], dict |-> d]
    ELSE [value |-> default, dict |-> d]

(***************************************************************************)
(* The capital lookup tool, get_capital_city.                              *)
(***************************************************************************)
s_france == <<"f","r","a","n","c","e">>
s_japan == <<"j","a","p","a","n">>
s_usa == <<"u","s","a">>
s_united_states == <<"u","n","i","t","e","d"," ","s","t","a","t","e","s">>
s_germany == <<"g","e","r","m","a","n","y">>
s_italy == <<"i","t","a","l","y">>
s_spain == <<"s","p","a","i","n">>
s_uk == <<"u","k">>
s_united_kingdom == <<"u","n","i","t","e","d"," ","k","i","n","g","d","o","m">>
s_canada == <<"c","a","n","a","d","a">>
s_australia == <<"a","u","s","t","r","a","l","i","a">>

\* the dict literal of get_capital_city
capitals ==
    (s_france :> "Paris") @@ (s_japan :> "Tokyo") @@
    (s_usa :> "Washington D.C.") @@ (s_united_states :> "Washington D.C.") @@
    (s_germany :> "Berlin") @@ (s_italy :> "Rome") @@ (s_spain :> "Madrid") @@
    (s_uk :> "London") @@ (s_united_kingdom :> "London") @@
    (s_canada :> "Ottawa") @@ (s_australia :> "Canberra")

\* a lookup that forgets country.lower()
get_capital_city_case_sensitive(country) ==
    DictGet(capitals, country, "Unknown")

\* result: the returned string; table: the local dict when the call returns
get_capital_city(country) ==
    DictGet(capitals, lower(country), "Unknown")

(***************************************************************************)
(* The country matcher of interactive_chat and demo_sequence.              *)
(***************************************************************************)
None == <<>>

\* a matcher list with an entry the lookup table lacks
countries_with_unlisted ==
    <<s_japan, s_france, s_germany, s_italy, s_spain, s_usa, s_united_states,
      s_uk, s_united_kingdom, s_canada, s_australia, <<"p","e","r","u">> >>

countries ==
    <<s_japan, s_france, s_germany, s_italy, s_spain, s_usa, s_united_states,
      s_uk, s_united_kingdom, s_canada, s_australia>>

\* the for loop with break: scan the list from index i on
RECURSIVE scan_countries(_, _, _)
scan_countries(list, user_lower, i) ==
    IF i > Len(list) THEN None
    ELSE IF Contains(list[i], user_lower) THEN list[i]
    ELSE scan_countries(list, user_lower, i + 1)

\* a scan without the break: the last matching entry is kept
RECURSIVE scan_countries_no_break(_, _, _)
scan_countries_no_break(list, user_lower, i) ==
    IF i > Len(list) THEN None
    ELSE LET rest == scan_countries_no_break(list, user_lower, i + 1)
         IN  IF rest # None THEN rest
             ELSE IF Contains(list[i], user_lower) THEN list[i]
             ELSE None

find_country_no_break(text) ==
    scan_countries_no_break(countries, lower(text), 1)

\* found_country for a user input (None when no entry matches)
find_country(text) ==
    scan_countries(countries, lower(text), 1)

(***************************************************************************)
(* Inputs: what the user can type, and what the environment can be.        *)
(***************************************************************************)
w_Japan == <<"J","a","p","a","n">>
w_france == <<"f","r","a","n","c","e">>
w_Peru == <<"P","e","r","u">>

Words == {w_Japan, w_france, w_Peru}

\* lines of at most n words separated by one space
RECURSIVE Phrases(_)
Phrases(n) ==
    IF n = 0 THEN {<<>>}
    ELSE LET shorter == Phrases(n - 1)
         IN  shorter \cup Words
             \cup {p \o <<" ">> \o w : p \in shorter \ {<<>>}, w \in Words}

\* quit words as typed, a line that only starts with one, and lines that
\* name a country in two words, inside another word, or in capitals
FixedLines ==
    {<<"q","u","i","t">>, <<"E","X","I","T">>, <<" ","B","y","e","\t">>,
     <<"q","u","i","t"," ","J","a","p","a","n">>,
     <<"U","n","i","t","e","d"," ","S","T","A","T","E","S">>,
     <<"U","K">>,
     <<"U","k","r","a","i","n","e">>,
     <<"J","e","r","u","s","a","l","e","m">>}

\* the list test_questions of demo_sequence
test_questions ==
    << <<"W","h","a","t"," ","i","s"," ","t","h","e"," ","c","a","p","i","t",
         "a","l"," ","o","f"," ","J","a","p","a","n","?">>,
       <<"T","e","l","l"," ","m","e"," ","a","b","o","u","t"," ","F","r","a",
         "n","c","e","'","s"," ","c","a","p","i","t","a","l">>,
       <<"W","h","a","t"," ","a","b","o","u","t"," ","G","e","r","m","a","n",
         "y","?">>,
       <<"C","a","p","i","t","a","l"," ","o","f"," ","A","u","s","t","r","a",
         "l","i","a","?">> >>

\* lines input("You: ") can return: phrases, bare or wrapped in whitespace,
\* and the demo's questions
Lines ==
    LET ph == Phrases(MaxWords)
    IN  ph \cup {<<" ">> \o p \o <<"\t">> : p \in ph}
           \cup FixedLines
           \cup {test_questions[i] : i \in 1..Len(test_questions)}

\* lines input("Enter choice (1 or 2): ") can return
Choices == {<<"1">>, <<"2">>, <<" ","2"," ">>, <<"2","2">>, <<>>}

\* texts of the exceptions a model call or input() can raise
ExcTexts == {"503 service unavailable", "API key not valid"}

(***************************************************************************)
(* State.                                                                  *)
(***************************************************************************)
VARIABLES
    api_key,               \* os.getenv("GEMINI_API_KEY") is set
    isatty,                \* sys.stdin.isatty()
    configured,            \* genai.configure(api_key=...) was called
    startup_out,           \* what the module-level key check printed
    pc,                    \* position of the program / of interactive_chat
    ended,                 \* how the chat loop was left
    line,                  \* what the last input("You: ") returned
    user_input,            \* interactive_chat: user_input
    found_country,         \* interactive_chat: found_country
    capital,               \* interactive_chat: capital
    log,                   \* interactive_chat: operations of the current turn
    turns,                 \* lines input("You: ") has returned so far
    conversation_history,  \* runner.conversation_history
    assistant_messages,    \* [AGENT] FINAL messages produced so far
    llm_calls,             \* model.generate_content calls made so far
    tool_calls,            \* get_capital_city calls made so far
    dpc,                   \* position of demo_sequence
    qi,                    \* demo_sequence: index of the current question
    demo_found_country,    \* demo_sequence: found_country
    demo_capital,          \* demo_sequence: capital
    demo_log,              \* demo_sequence: operations of the current question
    tool_pc,               \* a direct call of get_capital_city: its position
    tool_arg,              \* its argument
    tool_result,           \* its return value
    tool_table             \* its local dict when it returns

env_vars == <<api_key, isatty, configured, startup_out>>
chat_vars == <<pc, ended, line, user_input, found_country, capital, log, turns,
               conversation_history, assistant_messages>>
count_vars == <<llm_calls, tool_calls>>
demo_vars == <<dpc, qi, demo_found_country, demo_capital, demo_log>>
tool_vars == <<tool_pc, tool_arg, tool_result, tool_table>>
vars == <<env_vars, chat_vars, count_vars, demo_vars, tool_vars>>

\* one logged operation: its kind, a text and a Python string
Ev(kind, text, string) == [ev |-> kind, txt |-> text, str |-> string]

Count(l, kind) == Cardinality({i \in 1..Len(l) : l[i].ev = kind})

(***************************************************************************)
(* Blocks of code as operators: each returns what the block assigns and    *)
(* the operations it performs, in order.                                   *)
(***************************************************************************)
\* a key check that stops the program when the key is missing
api_key_check_halting(key) ==
    IF key
    THEN [configured |-> TRUE, out |-> "Gemini API key loaded successfully",
          pc |-> "main"]
    ELSE [configured |-> FALSE, out |-> "", pc |-> "crashed"]

\* module level: if api_key: configure, print; else: print the warning
api_key_check(key) ==
    IF key
    THEN [configured |-> TRUE, out |-> "Gemini API key loaded successfully",
          pc |-> "main"]
    ELSE [configured |-> FALSE,
          out |-> "Warning: GEMINI_API_KEY environment variable not set",
          pc |-> "main"]

QuitWords == {<<"q","u","i","t">>, <<"e","x","i","t">>, <<"b","y","e">>}

\* a quit test that forgets .lower()
is_quit_case_sensitive(text) == text \in QuitWords

\* user_input.lower() in ['quit', 'exit', 'bye']
is_quit(text) == lower(text) \in QuitWords

\* a handler that leaves the loop after printing
except_handler_leaving(e) ==
    [events |-> <<Ev("print_error", e, <<>>), Ev("print_try_again", "", <<>>)>>,
     pc |-> "done", ended |-> "error"]

\* except Exception as e: print, print, print; the while loop goes on
except_handler(e) ==
    [events |-> <<Ev("print_error", e, <<>>), Ev("print_try_again", "", <<>>)>>,
     pc |-> "chat_prompt", ended |-> ""]

\* the rest of a turn that always asks for the final response
chat_after_analysis_always_final(text) ==
    LET found == find_country(text)
        cap == get_capital_city(found).value
    IN  [found |-> found, capital |-> cap, next |-> "chat_llm2",
         events |-> <<Ev("match", "", found),
                      Ev("tool_called", "", found),
                      Ev("tool_result", cap, <<>>),
                      Ev("llm_call", "final", <<>>)>>]

\* interactive_chat after the analysis response: matcher, tool, final prompt
\* sent, or the clarification
chat_after_analysis(text) ==
    LET found == find_country(text)
    IN  IF found # None
        THEN LET cap == get_capital_city(found).value
             IN  [found |-> found, capital |-> cap, next |-> "chat_llm2",
                  events |-> <<Ev("match", "", found),
                               Ev("tool_called", "", found),
                               Ev("tool_result", cap, <<>>),
                               Ev("llm_call", "final", <<>>)>>]
        ELSE [found |-> None, capital |-> "", next |-> "chat_prompt",
              events |-> <<Ev("match", "", None),
                           Ev("print_clarify", "", <<>>),
                           Ev("print_stored", "", <<>>)>>]

\* a demo step that sends the final prompt before it calls the tool
demo_question_ops_call_first(question) ==
    LET found == find_country(question)
    IN  IF found # None
        THEN LET cap == get_capital_city(found).value
             IN  [found |-> found, capital |-> cap, next |-> "demo_llm",
                  events |-> <<Ev("user_input", "", question),
                               Ev("match", "", found),
                               Ev("llm_call", "final", <<>>),
                               Ev("tool_called", "", found),
                               Ev("tool_result", cap, <<>>)>>]
        ELSE [found |-> None, capital |-> "", next |-> "demo_next",
              events |-> <<Ev("user_input", "", question),
                           Ev("match", "", None),
                           Ev("print_clarify", "", <<>>),
                           Ev("print_stored", "", <<>>)>>]

\* demo_sequence for one question up to the final prompt: matcher, tool,
\* final prompt sent, or the clarification
demo_question_ops(question) ==
    LET found == find_country(question)
    IN  IF found # None
        THEN LET cap == get_capital_city(found).value
             IN  [found |-> found, capital |-> cap, next |-> "demo_llm",
                  events |-> <<Ev("user_input", "", question),
                               Ev("match", "", found),
                               Ev("tool_called", "", found),
                               Ev("tool_result", cap, <<>>),
                               Ev("llm_call", "final", <<>>)>>]
        ELSE [found |-> None, capital |-> "", next |-> "demo_next",
              events |-> <<Ev("user_input", "", question),
                           Ev("match", "", None),
                           Ev("print_clarify", "", <<>>),
                           Ev("print_stored", "", <<>>)>>]

\* LoggingRunner.run_async for one event of the parent runner: the only
\* place that appends to conversation_history (main.py never calls it)
run_async_event(history, has_message, text) ==
    IF has_message
    THEN Append(history, [role |-> "assistant", content |-> text])
    ELSE history

(***************************************************************************)
(* Initial state: the interpreter is about to run the module.              *)
(***************************************************************************)
ChatIdle ==
    /\ ended = ""
    /\ line = <<>>
    /\ user_input = <<>>
    /\ found_country = None
    /\ capital = ""
    /\ log = <<>>
    /\ turns = 0
    /\ conversation_history = <<>>
    /\ assistant_messages = 0
    /\ llm_calls = 0
    /\ tool_calls = 0

DemoIdle ==
    /\ qi = 1
    /\ demo_found_country = None
    /\ demo_capital = ""
    /\ demo_log = <<>>

ToolIdle ==
    /\ tool_pc = "idle"
    /\ tool_arg = <<>>
    /\ tool_result = ""
    /\ tool_table = capitals

Init ==
    /\ api_key \in BOOLEAN
    /\ isatty \in BOOLEAN
    /\ configured = FALSE
    /\ startup_out = ""
    /\ pc = "startup"
    /\ dpc = "idle"
    /\ ChatIdle
    /\ DemoIdle
    /\ ToolIdle

(***************************************************************************)
(* Module level and main().                                                *)
(***************************************************************************)
\* lines 33-38: the key check; the program goes on to main() either way
Startup ==
    /\ pc = "startup"
    /\ LET r == api_key_check(api_key)
       IN  /\ configured' = r.configured
           /\ startup_out' = r.out
           /\ pc' = r.pc
    /\ UNCHANGED <<api_key, isatty, ended, line, user_input, found_country,
                   capital, log, turns, conversation_history,
                   assistant_messages, count_vars, demo_vars, tool_vars>>

\* interactive_chat up to the loop: the agent and the runner are created,
\* LoggingRunner.__init__ sets conversation_history = []
EnterChat ==
    /\ pc' = "chat_prompt"
    /\ conversation_history' = <<>>
    /\ UNCHANGED <<env_vars, ended, line, user_input, found_country, capital,
                   log, turns, assistant_messages, count_vars, demo_vars,
                   tool_vars>>

\* demo_sequence up to the for loop
EnterDemo ==
    /\ pc' = "in_demo"
    /\ dpc' = "demo_loop"
    /\ qi' = 1
    /\ UNCHANGED <<env_vars, ended, line, user_input, found_country, capital,
                   log, turns, conversation_history, assistant_messages,
                   count_vars, demo_found_country, demo_capital, demo_log,
                   tool_vars>>

\* main() on a terminal, the user chooses the chat: choice == "2"
MainChooseChat ==
    /\ pc = "main"
    /\ isatty
    /\ \E choice \in Choices : strip(choice) = <<"2">>
    /\ EnterChat

\* main() on a terminal, any other choice runs the demo
MainChooseDemo ==
    /\ pc = "main"
    /\ isatty
    /\ \E choice \in Choices : strip(choice) # <<"2">>
    /\ EnterDemo

\* main() without a terminal runs the demo
MainNoTty ==
    /\ pc = "main"
    /\ ~isatty
    /\ EnterDemo

(***************************************************************************)
(* interactive_chat: the while loop.                                       *)
(***************************************************************************)
\* input("You: ") returns l: quit word, empty line, or the turn starts and
\* the analysis prompt is sent
ChatInput(l) ==
    /\ pc = "chat_prompt"
    /\ turns < MaxTurns
    /\ turns' = turns + 1
    /\ line' = l
    /\ user_input' = strip(l)
    /\ IF is_quit(strip(l))
       THEN /\ log' = <<Ev("print_goodbye", "", <<>>)>>
            /\ pc' = "done"
            /\ ended' = "quit"
            /\ UNCHANGED llm_calls
       ELSE IF strip(l) = <<>>
       THEN /\ log' = <<>>
            /\ UNCHANGED <<pc, ended, llm_calls>>
       ELSE /\ log' = <<Ev("user_input", "", strip(l)),
                        Ev("llm_call", "analysis", <<>>)>>
            /\ pc' = "chat_llm1"
            /\ llm_calls' = llm_calls + 1
            /\ UNCHANGED ended
    /\ UNCHANGED <<env_vars, found_country, capital, conversation_history,
                   assistant_messages, tool_calls, demo_vars, tool_vars>>

\* what an exception does to the loop, after the operations done so far
ChatCatch(done, e) ==
    LET h == except_handler(e)
    IN  /\ log' = done \o <<Ev("raise", e, <<>>)>> \o h.events
        /\ pc' = h.pc
        /\ ended' = h.ended

\* input("You: ") raises EOFError: the catch-all handles it
ChatInputEOF ==
    /\ pc = "chat_prompt"
    /\ ChatCatch(<<>>, "EOF when reading a line")
    /\ UNCHANGED <<env_vars, line, user_input, found_country, capital, turns,
                   conversation_history, assistant_messages, count_vars,
                   demo_vars, tool_vars>>

\* the analysis response arrives: matcher, then tool and final prompt, or
\* the clarification
ChatAnalysisReturn ==
    /\ pc = "chat_llm1"
    /\ LET r == chat_after_analysis(user_input)
       IN  /\ found_country' = r.found
           /\ capital' = IF r.found # None THEN r.capital ELSE capital
           /\ log' = log \o <<Ev("llm_return", "analysis", <<>>)>> \o r.events
           /\ pc' = r.next
           /\ llm_calls' = llm_calls + Count(r.events, "llm_call")
           /\ tool_calls' = tool_calls + Count(r.events, "tool_called")
    /\ UNCHANGED <<env_vars, ended, line, user_input, turns,
                   conversation_history, assistant_messages, demo_vars,
                   tool_vars>>

\* model.generate_content(enhanced_prompt) raises
ChatAnalysisRaise ==
    /\ pc = "chat_llm1"
    /\ \E e \in ExcTexts : ChatCatch(log, e)
    /\ UNCHANGED <<env_vars, line, user_input, found_country, capital, turns,
                   conversation_history, assistant_messages, count_vars,
                   demo_vars, tool_vars>>

\* the final response arrives and is printed
ChatFinalReturn ==
    /\ pc = "chat_llm2"
    /\ log' = log \o <<Ev("llm_return", "final", <<>>),
                       Ev("print_final", "", <<>>),
                       Ev("print_stored", "", <<>>)>>
    /\ assistant_messages' = assistant_messages + 1
    /\ pc' = "chat_prompt"
    /\ UNCHANGED <<env_vars, ended, line, user_input, found_country, capital,
                   turns, conversation_history, count_vars, demo_vars,
                   tool_vars>>

\* model.generate_content(final_prompt) raises
ChatFinalRaise ==
    /\ pc = "chat_llm2"
    /\ \E e \in ExcTexts : ChatCatch(log, e)
    /\ UNCHANGED <<env_vars, line, user_input, found_country, capital, turns,
                   conversation_history, assistant_messages, count_vars,
                   demo_vars, tool_vars>>

\* except KeyboardInterrupt: print, break
ChatInterrupt ==
    /\ pc \in {"chat_prompt", "chat_llm1", "chat_llm2"}
    /\ log' = Append(log, Ev("print_goodbye", "", <<>>))
    /\ pc' = "done"
    /\ ended' = "interrupt"
    /\ UNCHANGED <<env_vars, line, user_input, found_country, capital, turns,
                   conversation_history, assistant_messages, count_vars,
                   demo_vars, tool_vars>>

(***************************************************************************)
(* demo_sequence: the for loop.                                            *)
(***************************************************************************)
AfterQuestion(i) == IF i >= Len(test_questions) THEN "done" ELSE "demo_loop"

\* one question up to the final prompt (or through the clarification)
DemoQuestion ==
    /\ dpc = "demo_loop"
    /\ qi <= Len(test_questions)
    /\ LET r == demo_question_ops(test_questions[qi])
       IN  /\ demo_found_country' = r.found
           /\ demo_capital' = IF r.found # None THEN r.capital ELSE demo_capital
           /\ demo_log' = r.events
           /\ llm_calls' = llm_calls + Count(r.events, "llm_call")
           /\ tool_calls' = tool_calls + Count(r.events, "tool_called")
           /\ IF r.next = "demo_llm"
              THEN dpc' = "demo_llm" /\ qi' = qi
              ELSE dpc' = AfterQuestion(qi) /\ qi' = qi + 1
    /\ UNCHANGED <<env_vars, chat_vars, tool_vars>>

\* the final response arrives and is printed; sleep; next question
DemoFinalReturn ==
    /\ dpc = "demo_llm"
    /\ demo_log' = demo_log \o <<Ev("llm_return", "final", <<>>),
                                 Ev("print_final", "", <<>>),
                                 Ev("print_stored", "", <<>>)>>
    /\ dpc' = AfterQuestion(qi)
    /\ qi' = qi + 1
    /\ UNCHANGED <<env_vars, chat_vars, count_vars, demo_found_country,
                   demo_capital, tool_vars>>

\* model.generate_content(final_prompt) raises: nothing catches it
DemoFinalRaise ==
    /\ dpc = "demo_llm"
    /\ \E e \in ExcTexts : demo_log' = Append(demo_log, Ev("raise", e, <<>>))
    /\ dpc' = "crashed"
    /\ UNCHANGED <<env_vars, chat_vars, count_vars, qi, demo_found_country,
                   demo_capital, tool_vars>>

(***************************************************************************)
(* The program.                                                            *)
(***************************************************************************)
Next ==
    \/ Startup
    \/ MainChooseChat
    \/ MainChooseDemo
    \/ MainNoTty
    \/ \E l \in Lines : ChatInput(l)
    \/ ChatInputEOF
    \/ ChatAnalysisReturn
    \/ ChatAnalysisRaise
    \/ ChatFinalReturn
    \/ ChatFinalRaise
    \/ ChatInterrupt
    \/ DemoQuestion
    \/ DemoFinalReturn
    \/ DemoFinalRaise

Spec == Init /\ [][Next]_vars

(***************************************************************************)
(* get_capital_city called directly, on any argument.                      *)
(***************************************************************************)
\* key with the letters at the positions in caps upper-cased
WithCaps(key, caps) ==
    [i \in 1..Len(key) |->
        IF i \in caps /\ key[i] \in DOMAIN UpperOf THEN UpperOf[key[i]] ELSE key[i]]

CaseVariants(key) ==
    {WithCaps(key, caps) :
        caps \in {c \in SUBSET (1..Len(key)) : Cardinality(c) <= MaxCaps}}
    \cup {upper(key)}

\* strings that are no key in any letter case: empty, other countries, a
\* key with a space before or after it, a prefix of a key, two keys joined
UnknownArgs ==
    {<<>>, <<"p","e","r","u">>, <<"P","e","r","u">>,
     <<" ","j","a","p","a","n">>, <<"j","a","p","a","n"," ">>,
     <<"j","a","p","a">>, <<"u","k","r","a","i","n","e">>,
     <<"u","n","i","t","e","d">>, <<"u","s","a","u","k">>,
     <<"u","n","i","t","e","d","s","t","a","t","e","s">>}

ToolArgs == UNION {CaseVariants(key) : key \in DOMAIN capitals} \cup UnknownArgs

InitTool ==
    /\ api_key \in BOOLEAN
    /\ isatty = FALSE
    /\ configured = FALSE
    /\ startup_out = ""
    /\ pc = "idle"
    /\ dpc = "idle"
    /\ ChatIdle
    /\ DemoIdle
    /\ tool_pc = "call"
    /\ tool_arg \in ToolArgs
    /\ tool_result = ""
    /\ tool_table = capitals

\* lines 41-63: the call returns
ToolCall ==
    /\ tool_pc = "call"
    /\ LET r == get_capital_city(tool_arg)
       IN  /\ tool_result' = r.value
           /\ tool_table' = r.dict
    /\ tool_pc' = "returned"
    /\ UNCHANGED <<env_vars, chat_vars, count_vars, demo_vars, tool_arg>>

NextTool == ToolCall

SpecTool == InitTool /\ [][NextTool]_vars

(***************************************************************************)
(* The two pipelines side by side on the same questions: the chat loop is  *)
(* given test_questions, one per turn, while demo_sequence runs its own.   *)
(***************************************************************************)
InitPair ==
    /\ api_key \in BOOLEAN
    /\ isatty = TRUE
    /\ configured = api_key
    /\ startup_out = api_key_check(api_key).out
    /\ pc = "chat_prompt"
    /\ dpc = "demo_loop"
    /\ ChatIdle
    /\ DemoIdle
    /\ ToolIdle

\* the user types the demo's next question
PairChatInput ==
    /\ turns < Len(test_questions)
    /\ ChatInput(test_questions[turns + 1])

NextPair ==
    \/ PairChatInput
    \/ ChatAnalysisReturn
    \/ ChatAnalysisRaise
    \/ ChatFinalReturn
    \/ ChatFinalRaise
    \/ DemoQuestion
    \/ DemoFinalReturn
    \/ DemoFinalRaise

SpecPair == InitPair /\ [][NextPair]_vars

(***************************************************************************)
(* Helpers of the properties.                                              *)
(***************************************************************************)
\* a is key (lower case) with any of its letters upper-cased
SameIgnoringCase(a, key) ==
    /\ Len(a) = Len(key)
    /\ \A i \in 1..Len(key) :
          \/ a[i] = key[i]
          \/ key[i] \in DOMAIN UpperOf /\ a[i] = UpperOf[key[i]]

Has(l, e) == \E i \in 1..Len(l) : l[i] = e

HasKind(l, kind) == \E i \in 1..Len(l) : l[i].ev = kind

LastKind(l) == IF l = <<>> THEN "" ELSE l[Len(l)].ev

\* the log is that of a processed utterance
Processed(l) == l # <<>> /\ l[1].ev = "user_input"

CallFinal == Ev("llm_call", "final", <<>>)
CallAnalysis == Ev("llm_call", "analysis", <<>>)
ReturnAnalysis == Ev("llm_return", "analysis", <<>>)

(***************************************************************************)
(* C1                                                                      *)
(***************************************************************************)
C1_Expected ==
    (<<"f","r","a","n","c","e">> :> "Paris")
    @@ (<<"j","a","p","a","n">> :> "Tokyo")
    @@ (<<"u","s","a">> :> "Washington D.C.")
    @@ (<<"u","n","i","t","e","d"," ","s","t","a","t","e","s">> :> "Washington D.C.")
    @@ (<<"g","e","r","m","a","n","y">> :> "Berlin")
    @@ (<<"i","t","a","l","y">> :> "Rome")
    @@ (<<"s","p","a","i","n">> :> "Madrid")
    @@ (<<"u","k">> :> "London")
    @@ (<<"u","n","i","t","e","d"," ","k","i","n","g","d","o","m">> :> "London")
    @@ (<<"c","a","n","a","d","a">> :> "Ottawa")
    @@ (<<"a","u","s","t","r","a","l","i","a">> :> "Canberra")

\* C1: when get_capital_city returns, the result is the expected capital if
\* the argument is a known country name in any letter case, "Unknown" for
\* every other argument, and the lookup table is the table as written.
C1_LookupContract ==
    tool_pc = "returned" =>
        /\ \A key \in DOMAIN C1_Expected :
              SameIgnoringCase(tool_arg, key) => tool_result = C1_Expected[key]
        /\ (~ \E key \in DOMAIN C1_Expected : SameIgnoringCase(tool_arg, key))
              => tool_result = "Unknown"
        /\ tool_table = C1_Expected

\* the call has returned London for UNITED KINGDOM
C1_Witness ==
    /\ tool_pc = "returned"
    /\ tool_arg = <<"U","N","I","T","E","D"," ","K","I","N","G","D","O","M">>
    /\ tool_result = "London"

(***************************************************************************)
(* C2                                                                      *)
(***************************************************************************)
C2_ListOrder ==
    << <<"j","a","p","a","n">>, <<"f","r","a","n","c","e">>,
       <<"g","e","r","m","a","n","y">>, <<"i","t","a","l","y">>,
       <<"s","p","a","i","n">>, <<"u","s","a">>,
       <<"u","n","i","t","e","d"," ","s","t","a","t","e","s">>, <<"u","k">>,
       <<"u","n","i","t","e","d"," ","k","i","n","g","d","o","m">>,
       <<"c","a","n","a","d","a">>, <<"a","u","s","t","r","a","l","i","a">> >>

\* found is the first entry of the list that occurs in the lowercased text,
\* and none exactly when no entry occurs in it
C2_FirstListed(text, found) ==
    LET low == lower(text)
        occurs(i) == Contains(C2_ListOrder[i], low)
    IN  IF \E i \in 1..Len(C2_ListOrder) : occurs(i)
        THEN \E i \in 1..Len(C2_ListOrder) :
                /\ found = C2_ListOrder[i]
                /\ occurs(i)
                /\ \A j \in 1..(i - 1) : ~occurs(j)
        ELSE found = None

C2_Matched(l) ==
    \A i \in 1..Len(l) : l[i].ev = "match" => C2_FirstListed(l[1].str, l[i].str)

\* C2: in both pipelines the matcher's result for the turn's input is the
\* first list entry, in list order, that is a substring of the lowercased
\* input, and none exactly when no entry is.
C2_MatcherFirstInList == C2_Matched(log) /\ C2_Matched(demo_log)

\* "france Japan": france comes first in the input, japan first in the list
C2_Witness ==
    /\ pc = "chat_llm2"
    /\ user_input = <<"f","r","a","n","c","e"," ","J","a","p","a","n">>
    /\ found_country = <<"j","a","p","a","n">>

(***************************************************************************)
(* C3                                                                      *)
(***************************************************************************)
\* C3: an exception raised in a chat turn is followed by the print of its
\* text and the loop is back at the prompt (it can then only be left by an
\* interrupt or a quit word); the loop is never left for another reason.
C3_CatchAllContinues ==
    /\ \A i \in 1..Len(log) :
          log[i].ev = "raise" =>
             /\ i < Len(log)
             /\ log[i + 1] = Ev("print_error", log[i].txt, <<>>)
             /\ \/ pc = "chat_prompt"
                \/ pc = "done" /\ ended = "interrupt"
    /\ pc = "done" => ended \in {"quit", "interrupt"}
    /\ ended \in {"", "quit", "interrupt"}

\* a model call has raised and the loop is at the prompt again
C3_Witness ==
    /\ pc = "chat_prompt"
    /\ turns < MaxTurns
    /\ \E i \in 1..Len(log) : log[i].ev = "raise" /\ log[i].txt \in ExcTexts

(***************************************************************************)
(* C4                                                                      *)
(***************************************************************************)
IsPipelineOp(e) == e.ev \in {"match", "tool_called", "llm_call"}

\* the matcher runs, tool calls and model calls of a turn, in order
OpsOf(l) == SelectSeq(l, IsPipelineOp)

\* the chat turn and the demo step for the same question have both run to
\* their end, every model call having returned
C4_BothFinished ==
    /\ turns >= 1
    /\ qi = turns + 1
    /\ user_input = test_questions[turns]
    /\ pc = "chat_prompt"
    /\ dpc \in {"demo_loop", "done"}
    /\ LastKind(log) = "print_stored"
    /\ LastKind(demo_log) = "print_stored"

\* C4: for the same question, a finished demo step and a finished chat turn
\* have performed the same sequence of matcher runs, tool calls and model
\* calls.
C4_SamePipeline == C4_BothFinished => OpsOf(log) = OpsOf(demo_log)

(***************************************************************************)
(* C5                                                                      *)
(***************************************************************************)
\* the chat turn for a processed utterance has run to its end
C5_TurnFinished ==
    /\ pc = "chat_prompt"
    /\ Processed(log)
    /\ LastKind(log) = "print_stored"

\* C5 as claimed: every processed utterance whose turn ran to its end made
\* two model round trips.
C5_AlwaysTwoRoundTrips ==
    C5_TurnFinished =>
        Count(log, "llm_call") = 2 /\ Count(log, "llm_return") = 2

\* C5 as amended: a processed utterance first sends the analysis prompt; a
\* second (final) model call is made only after the analysis call has
\* returned and only when the matcher found a country; there are never more
\* than two calls; a turn that runs to its end made one round trip when no
\* country was found and two when one was.
C5_RoundTrips ==
    Processed(log) =>
        /\ Len(log) >= 2 /\ log[2] = CallAnalysis
        /\ Count(log, "llm_call") <= 2
        /\ \A i \in 1..Len(log) :
              log[i] = CallFinal =>
                 /\ \E j \in 1..(i - 1) : log[j] = ReturnAnalysis
                 /\ \E k \in 1..(i - 1) :
                       log[k].ev = "match" /\ log[k].str # None
        /\ C5_TurnFinished =>
              /\ Count(log, "llm_call") = Count(log, "llm_return")
              /\ Count(log, "llm_call") = IF found_country = None THEN 1 ELSE 2

\* a turn with a country has finished after two round trips
C5_Witness ==
    /\ C5_TurnFinished
    /\ found_country # None
    /\ Count(log, "llm_return") = 2

(***************************************************************************)
(* C6                                                                      *)
(***************************************************************************)
\* C6: the conversation history holds one entry per assistant message the
\* chat session has produced.
C6_HistoryAccumulates == Len(conversation_history) = assistant_messages

(***************************************************************************)
(* C7                                                                      *)
(***************************************************************************)
\* C7: with GEMINI_API_KEY absent the key check prints the warning and
\* configures nothing, the program does not stop there, and nothing fails
\* (no crash, no model exception) before a model call has been made.
C7_MissingKeyOnlyWarns ==
    ~api_key =>
        /\ pc # "startup" =>
              /\ startup_out = "Warning: GEMINI_API_KEY environment variable not set"
              /\ ~configured
        /\ (pc = "crashed" \/ dpc = "crashed") => llm_calls >= 1
        /\ \A i \in 1..Len(log) :
              (log[i].ev = "raise" /\ log[i].txt \in ExcTexts) => llm_calls >= 1

\* without a key the chat has been chosen and its first model call is out
C7_Witness ==
    /\ ~api_key
    /\ pc = "chat_llm1"
    /\ llm_calls = 1

(***************************************************************************)
(* C8                                                                      *)
(***************************************************************************)
C8_TurnOK(l) ==
    /\ Count(l, "tool_called") <= 1
    /\ \A i \in 1..Len(l) :
          l[i].ev = "tool_called" =>
             /\ \E k \in 1..(i - 1) :
                   l[k].ev = "match" /\ l[k].str # None /\ l[k].str = l[i].str
             /\ \A j \in 1..Len(l) : l[j] = CallFinal => i < j
    /\ \A j \in 1..Len(l) : l[j] = CallFinal => HasKind(l, "tool_called")
    /\ \A k \in 1..Len(l) :
          (l[k].ev = "match" /\ l[k].str = None) =>
             /\ ~HasKind(l, "tool_called")
             /\ ~Has(l, CallFinal)
             /\ \E j \in (k + 1)..Len(l) : l[j].ev = "print_clarify"

\* C8: in a turn of either pipeline the tool is called at most once, only
\* after the matcher found a country and with that country, and before the
\* final model call; when the matcher finds none there is no tool call and
\* no final model call and the clarification is printed.
C8_ToolOnlyOnMatch == C8_TurnOK(log) /\ C8_TurnOK(demo_log)

\* a chat turn has called the tool with the matched country and sent the
\* final prompt
C8_Witness ==
    /\ pc = "chat_llm2"
    /\ found_country = <<"u","s","a">>
    /\ Has(log, Ev("tool_called", "", <<"u","s","a">>))
    /\ LastKind(log) = "llm_call"

(***************************************************************************)
(* C9                                                                      *)
(***************************************************************************)
C9_IsQuitLine(l) ==
    \E w \in {<<"q","u","i","t">>, <<"e","x","i","t">>, <<"b","y","e">>} :
        SameIgnoringCase(strip(l), w)

C9_IsBlankLine(l) == \A i \in 1..Len(l) : l[i] \in Whitespace

\* C9: when the chat loop reads a line that is a quit word after trimming,
\* in any letter case, the loop ends with no model call and no tool call;
\* when it reads a line that is empty after trimming, it makes no model call
\* and no tool call and is at the prompt again.
C9_QuitAndBlank ==
    [][turns' = turns + 1 =>
          /\ C9_IsQuitLine(line') =>
                /\ pc' = "done" /\ ended' = "quit"
                /\ llm_calls' = llm_calls /\ tool_calls' = tool_calls
          /\ C9_IsBlankLine(line') =>
                /\ pc' = "chat_prompt" /\ ended' = ended
                /\ llm_calls' = llm_calls /\ tool_calls' = tool_calls]_vars

\* " Bye" followed by a tab has ended the loop
C9_Witness ==
    /\ pc = "done"
    /\ ended = "quit"
    /\ line = <<" ","B","y","e","\t">>
    /\ llm_calls = 0

(***************************************************************************)
(* C10                                                                     *)
(***************************************************************************)
C10_NoUnknown(l) ==
    \A i \in 1..Len(l) : l[i].ev = "tool_result" => l[i].txt # "Unknown"

\* C10: every entry of the matcher's list is a key of the lookup table, and
\* no tool call of either pipeline returns "Unknown".
C10_MatchedIsKnown ==
    /\ \A i \in 1..Len(countries) : countries[i] \in DOMAIN capitals
    /\ C10_NoUnknown(log)
    /\ C10_NoUnknown(demo_log)
    /\ capital # "Unknown"
    /\ demo_capital # "Unknown"

\* the chat has looked up the matched "uk" of "Ukraine" and got London
C10_Witness ==
    /\ pc = "chat_llm2"
    /\ user_input = <<"U","k","r","a","i","n","e">>
    /\ found_country = <<"u","k">>
    /\ capital = "London"
    /\ Has(log, Ev("tool_result", "London", <<>>))

====
